---- MODULE Spec2Model ----
(***************************************************************************)
(* bgp-models: the data structures of src/src/bgp as state machines, one   *)
(* specification per component.                                            *)
(*   Spec, SpecTwice  AsPath::merge_aspath_as4path, the reconciliation of  *)
(*                    AS_PATH with AS4_PATH (RFC 6793, section 4.2.3): one *)
(*                    call stepped through its branches and through the    *)
(*                    iterations of its segment walk, and the call made    *)
(*                    twice                                                *)
(*   SpecRemerge      the call made again with the path it returned as the *)
(*                    AS_PATH                                              *)
(*   SpecPath         an AsPath built by its constructors, counted and     *)
(*                    rendered by each of its two Display implementations  *)
(*   SpecAttrs        the AttributeMap filled by inserts                   *)
(*   SpecExt          the values of ExtendedCommunity and their octets     *)
(*   SpecElem         a BgpElem and its text                               *)
(*                                                                         *)
(* Option<T> is a sequence of at most one element: None is <<>> and        *)
(* Some(v) is <<v>>.  A Vec is a sequence.                                 *)
(***************************************************************************)
EXTENDS Integers, Sequences, FiniteSets

(***************************************************************************)
(* Bounds of the inputs.                                                   *)
(***************************************************************************)
\* the most segments an input path carries
MaxSegs == 2
\* the most ASNs an AS_SEQUENCE segment of an input carries
MaxSegLen == 2
\* the ASNs every AS_SET, CONFED_SEQUENCE and CONFED_SET segment of an input
\* carries: the merge and the count never look inside such a segment
SetLen == 2
\* the most segments add_segment pushes onto a path under construction
MaxPathSegs == 2
\* the most ASNs a segment of a path under construction carries
MaxAsns == 2
\* the most inserts made into an attribute collection
MaxInserts == 3

VARIABLES
    aspath,          \* the argument aspath: Option<&Attribute>
    as4path,         \* the argument as4path: Option<&Attribute>
    overflow_checks, \* the build: TRUE with overflow checks (debug), FALSE without
    pc,              \* "start", "walk", "done" (returned) or "panic" (aborted)
    as4iter,         \* as4iter: how many AS4_PATH segments the iterator has yielded
    as4seg,          \* as4seg: Option<&AsPathSegment>
    new_segs,        \* new_segs: Vec<AsPathSegment>
    seg_idx,         \* the position of the for loop in aspath.segments (0: not in it)
    result           \* the value returned: Option<AsPath>

\* a call repeated with the same arguments
VARIABLES
    again,           \* TRUE in the repeated call
    first_result     \* Some(what the first call returned), once it is repeated

\* a path under construction and what was observed of it
VARIABLES
    self_path,       \* the AsPath
    counted,         \* Some(what count_asns returned for path), None before the call
    rendered,        \* Some(what to_string returned for path), None before the call
    rendered_display, \* Some(what the Display of display.rs writes for path), None before
    added            \* Some(the segments add_segment was called with since new(), in
                     \* call order), None for a path made by from_segments (history)

\* an attribute collection being filled
VARIABLES
    big_endian,      \* the target: TRUE when its native byte order is big-endian
    map,             \* Attributes.map: the entries of the HashMap, oldest first
    inserts          \* the inserts made so far, oldest first (history)

\* an extended community and its octets
VARIABLES
    ec,              \* Some(the ExtendedCommunity), None before it is made
    octets,          \* Some(the octets its fields are laid out in), None before
    shown            \* Some(what to_string returned for ec), None before the call

\* a BGP element and its text
VARIABLES
    elem,            \* Some(the BgpElem), None before it is made
    line             \* Some(what to_string returned for elem), None before the call

mergeVars == <<aspath, as4path, overflow_checks, pc, as4iter, as4seg, new_segs, seg_idx, result>>

againVars == <<again, first_result>>

pathVars == <<self_path, counted, rendered, rendered_display, added>>

attrsVars == <<big_endian, map, inserts>>

extVars == <<ec, octets, shown>>

elemVars == <<elem, line>>

\* what a step of merge_aspath_as4path cannot touch
otherVars == <<againVars, pathVars, attrsVars, extVars, elemVars>>

\* what a method of a path under construction cannot touch
notPathVars == <<mergeVars, againVars, attrsVars, extVars, elemVars>>

\* what an insert into an attribute collection cannot touch
notAttrsVars == <<mergeVars, againVars, pathVars, extVars, elemVars>>

\* what an extended community cannot touch
notExtVars == <<mergeVars, againVars, pathVars, attrsVars, elemVars>>

\* what a BGP element cannot touch
notElemVars == <<mergeVars, againVars, pathVars, attrsVars, extVars>>

vars == <<mergeVars, againVars, pathVars, attrsVars, extVars, elemVars>>

None == <<>>

Some(v) == <<v>>

(***************************************************************************)
(* The data model.                                                         *)
(***************************************************************************)
AsPathSegment(kind, asns) == [kind |-> kind, asns |-> asns]

SegmentKinds == {"AsSequence", "AsSet", "ConfedSequence", "ConfedSet"}

AsPath(segments) == [segments |-> segments]

\* Attribute::AsPath(v), Attribute::As4Path(v) and, for every other variant,
\* Attribute::Origin(Origin::IGP)
AttrAsPath(v) == [attr |-> "AsPath", path |-> v]

AttrAs4Path(v) == [attr |-> "As4Path", path |-> v]

AttrOrigin == [attr |-> "Origin", origin |-> "IGP"]

IsAsPath(a) == a # None /\ a[1].attr = "AsPath"

IsAs4Path(a) == a # None /\ a[1].attr = "As4Path"

(***************************************************************************)
(* AsPathSegment::count_asns and AsPath::count_asns.                       *)
(***************************************************************************)
SegmentCountAsns_SetBySize(seg) ==
    CASE seg.kind \in {"AsSequence", "AsSet"} -> Len(seg.asns)
      [] OTHER -> 0

SegmentCountAsns(seg) ==
    CASE seg.kind = "AsSequence" -> Len(seg.asns)
      [] seg.kind = "AsSet" -> 1
      [] OTHER -> 0

RECURSIVE SumCounts(_)
SumCounts(segs) ==
    IF segs = <<>> THEN 0
    ELSE SegmentCountAsns(Head(segs)) + SumCounts(Tail(segs))

CountAsns(path) == SumCounts(path.segments)

(***************************************************************************)
(* Text.  A String is the sequence of its characters, each a string of one *)
(* character; a &str literal is written out as such a sequence.            *)
(***************************************************************************)
DecimalDigits == <<"0", "1", "2", "3", "4", "5", "6", "7", "8", "9">>

\* to_string of an unsigned integer: its decimal digits, no leading zero
RECURSIVE ToDecimal(_)
ToDecimal(n) ==
    IF n < 10 THEN <<DecimalDigits[n + 1]>>
    ELSE ToDecimal(n \div 10) \o <<DecimalDigits[(n % 10) + 1]>>

(***************************************************************************)
(* impl fmt::Display for AsPathSegment and for AsPath.                     *)
(***************************************************************************)
\* for i in &v[1..] { write!(f, "{}{}", separator, i)?; }, from position i on
RECURSIVE WriteRest(_, _, _)
WriteRest(v, i, separator) ==
    IF i > Len(v) THEN <<>>
    ELSE separator \o ToDecimal(v[i]) \o WriteRest(v, i + 1, separator)

\* the closure write_vec
WriteVec(v, separator, prefix, suffix) ==
    prefix
    \o (IF Len(v) > 0 THEN ToDecimal(v[1]) \o WriteRest(v, 2, separator) ELSE <<>>)
    \o suffix

DisplaySegment_Compact(seg) ==
    IF seg.kind \in {"AsSequence", "ConfedSequence"}
    THEN WriteVec(seg.asns, <<" ">>, <<>>, <<>>)
    ELSE WriteVec(seg.asns, <<",">>, <<"{">>, <<"}">>)

DisplaySegment(seg) ==
    IF seg.kind \in {"AsSequence", "ConfedSequence"}
    THEN WriteVec(seg.asns, <<" ">>, <<>>, <<>>)
    ELSE WriteVec(seg.asns, <<",", " ">>, <<"{", " ">>, <<" ", "}">>)

\* the loop of AsPath's fmt from position index (counted from 0) on
RECURSIVE DisplayFrom(_, _)
DisplayFrom(segments, index) ==
    IF index >= Len(segments) THEN <<>>
    ELSE DisplaySegment(segments[index + 1])
         \o (IF index # Len(segments) - 1 THEN <<" ">> ELSE <<>>)
         \o DisplayFrom(segments, index + 1)

DisplayAsPath(path) == DisplayFrom(path.segments, 0)

(***************************************************************************)
(* impl Display for AsPath of display.rs: every segment is mapped to a     *)
(* String, and the Strings are collected and joined.                       *)
(***************************************************************************)
\* [String]::join(sep): the strings in order, sep between every two neighbours
RECURSIVE Join(_, _)
Join(strings, sep) ==
    IF Len(strings) = 0 THEN <<>>
    ELSE IF Len(strings) = 1 THEN strings[1]
    ELSE strings[1] \o sep \o Join(Tail(strings), sep)

\* v.iter().map(|x| x.to_string()).collect::<Vec<String>>()
CollectStrings(v) == [i \in DOMAIN v |-> ToDecimal(v[i])]

\* the closure |seg| match seg { .. }
DisplayRs_Segment(seg) ==
    IF seg.kind \in {"AsSequence", "ConfedSequence"}
    THEN Join(CollectStrings(seg.asns), <<" ">>)
    ELSE <<"{">> \o Join(CollectStrings(seg.asns), <<",">>) \o <<"}">>

\* write!(f, "{}", self.segments().iter().map(..).collect::<Vec<String>>().join(" "))
DisplayRs_AsPath(path) ==
    Join([i \in DOMAIN path.segments |-> DisplayRs_Segment(path.segments[i])], <<" ">>)

(***************************************************************************)
(* The pieces of merge_aspath_as4path.                                     *)
(***************************************************************************)
\* Iterator::next of as4path.segments.iter(), pos segments already yielded
IterNext(segs, pos) == IF pos < Len(segs) THEN Some(segs[pos + 1]) ELSE None

\* seq.len() - seq4.len() in usize.  A negative value d stands for the wrapped
\* value 2^64 + d, which a build without overflow checks computes.
DiffLen(seq, seq4) == Len(seq) - Len(seq4)

\* seq.iter().take(n): the first n elements, all of them when n is not smaller
\* than the length (a wrapped n is larger than the length of any Vec)
Take_OneMore(seq, n) ==
    IF n < 0 \/ n + 1 >= Len(seq) THEN seq ELSE SubSeq(seq, 1, n + 1)

Take(seq, n) ==
    IF n < 0 \/ n >= Len(seq) THEN seq ELSE SubSeq(seq, 1, n)

\* new_seq: the leading diff_len ASNs of seq, followed by seq4
MergedSequence_Appended(seq, seq4, diff_len) == seq4 \o Take(seq, diff_len)

MergedSequence(seq, seq4, diff_len) == Take(seq, diff_len) \o seq4

BothSequences(seg, seg4) == seg.kind = "AsSequence" /\ seg4.kind = "AsSequence"

\* what one iteration of the walk pushes on new_segs
WalkSegment_KeepsAsPath(seg, as4seg_unwrapped) ==
    IF BothSequences(seg, as4seg_unwrapped)
    THEN AsPathSegment("AsSequence",
             MergedSequence(seg.asns, as4seg_unwrapped.asns,
                            DiffLen(seg.asns, as4seg_unwrapped.asns)))
    ELSE seg

WalkSegment(seg, as4seg_unwrapped) ==
    IF BothSequences(seg, as4seg_unwrapped)
    THEN AsPathSegment("AsSequence",
             MergedSequence(seg.asns, as4seg_unwrapped.asns,
                            DiffLen(seg.asns, as4seg_unwrapped.asns)))
    ELSE as4seg_unwrapped

(***************************************************************************)
(* The inputs.  The merge reads the kinds and the lengths of the segments  *)
(* and never compares ASNs, so an input vector of n ASNs is one run of n   *)
(* consecutive ASNs: 1, 2, ... in AS_PATH and 65537, 65538, ... (four      *)
(* octets) in AS4_PATH.                                                    *)
(***************************************************************************)
AsnRun(first, n) == [i \in 1..n |-> first + i - 1]

SegmentsFrom(first) ==
    {AsPathSegment("AsSequence", AsnRun(first, n)) : n \in 0..MaxSegLen}
    \cup {AsPathSegment(k, AsnRun(first, SetLen)) : k \in SegmentKinds \ {"AsSequence"}}

PathsFrom(first) ==
    {AsPath(s) : s \in UNION {[1..n -> SegmentsFrom(first)] : n \in 0..MaxSegs}}

AsPaths == PathsFrom(1)

As4Paths == PathsFrom(65537)

\* an attribute of the wrong variant in a slot: its payload is never read
MisplacedPaths(paths) == {p \in paths : Len(p.segments) <= 1}

AsPathSlots ==
    {None, Some(AttrOrigin)}
    \cup {Some(AttrAsPath(p)) : p \in AsPaths}
    \cup {Some(AttrAs4Path(p)) : p \in MisplacedPaths(As4Paths)}

As4PathSlots ==
    {None, Some(AttrOrigin)}
    \cup {Some(AttrAs4Path(p)) : p \in As4Paths}
    \cup {Some(AttrAsPath(p)) : p \in MisplacedPaths(AsPaths)}

\* the inputs of tests::test_aspath_as4path_merge
TestAsPath == Some(AttrAsPath(AsPath(<<AsPathSegment("AsSequence", <<1, 2, 3, 5>>)>>)))

TestAs4Path == Some(AttrAs4Path(AsPath(<<AsPathSegment("AsSequence", <<2, 3, 7>>)>>)))

(***************************************************************************)
(* Each specification runs one component; the others rest in these states. *)
(***************************************************************************)
\* no call of merge_aspath_as4path is made
MergeIdle ==
    /\ aspath = None
    /\ as4path = None
    /\ overflow_checks = FALSE
    /\ pc = "idle"
    /\ as4iter = 0
    /\ as4seg = None
    /\ new_segs = <<>>
    /\ seg_idx = 0
    /\ result = None
    /\ again = FALSE
    /\ first_result = None

\* no path is under construction
PathIdle ==
    /\ self_path = AsPath(<<>>)
    /\ counted = None
    /\ rendered = None
    /\ rendered_display = None
    /\ added = Some(<<>>)

\* no attribute collection is in use
AttrsIdle ==
    /\ big_endian = FALSE
    /\ map = <<>>
    /\ inserts = <<>>

\* no extended community is made
ExtIdle ==
    /\ ec = None
    /\ octets = None
    /\ shown = None

\* no BGP element is made
ElemIdle ==
    /\ elem = None
    /\ line = None

(***************************************************************************)
(* The state at the call.                                                  *)
(***************************************************************************)
Init ==
    /\ \/ aspath \in AsPathSlots /\ as4path \in As4PathSlots
       \/ aspath = TestAsPath /\ as4path = TestAs4Path
    /\ overflow_checks \in BOOLEAN
    /\ pc = "start"
    /\ as4iter = 0
    /\ as4seg = None
    /\ new_segs = <<>>
    /\ seg_idx = 0
    /\ result = None
    /\ again = FALSE
    /\ first_result = None
    /\ PathIdle
    /\ AttrsIdle
    /\ ExtIdle
    /\ ElemIdle

Return(v) ==
    /\ result' = v
    /\ pc' = "done"

Panic ==
    /\ pc' = "panic"
    /\ UNCHANGED result

\* (None, None) => return None
MergeNone ==
    /\ pc = "start"
    /\ aspath = None /\ as4path = None
    /\ Return(None)
    /\ UNCHANGED <<aspath, as4path, overflow_checks, as4iter, as4seg, new_segs, seg_idx>>
    /\ UNCHANGED otherVars

\* (Some(Attribute::AsPath(v)), None) => return Some(v.clone())
MergeOnlyAsPath ==
    /\ pc = "start"
    /\ IsAsPath(aspath) /\ as4path = None
    /\ Return(Some(aspath[1].path))
    /\ UNCHANGED <<aspath, as4path, overflow_checks, as4iter, as4seg, new_segs, seg_idx>>
    /\ UNCHANGED otherVars

MergeOnlyAs4Path_Absent ==
    /\ pc = "start"
    /\ aspath = None /\ IsAs4Path(as4path)
    /\ Return(None)
    /\ UNCHANGED <<aspath, as4path, overflow_checks, as4iter, as4seg, new_segs, seg_idx>>
    /\ UNCHANGED otherVars

\* (None, Some(Attribute::As4Path(v))) => return Some(v.clone())
MergeOnlyAs4Path ==
    /\ pc = "start"
    /\ aspath = None /\ IsAs4Path(as4path)
    /\ Return(Some(as4path[1].path))
    /\ UNCHANGED <<aspath, as4path, overflow_checks, as4iter, as4seg, new_segs, seg_idx>>
    /\ UNCHANGED otherVars

MergeIgnoreAs4Path_TakesAs4Path ==
    /\ pc = "start"
    /\ IsAsPath(aspath) /\ IsAs4Path(as4path)
    /\ CountAsns(aspath[1].path) < CountAsns(as4path[1].path)
    /\ Return(Some(as4path[1].path))
    /\ UNCHANGED <<aspath, as4path, overflow_checks, as4iter, as4seg, new_segs, seg_idx>>
    /\ UNCHANGED otherVars

\* both present, aspath.count_asns() < as4path.count_asns() => Some(aspath.clone())
MergeIgnoreAs4Path ==
    /\ pc = "start"
    /\ IsAsPath(aspath) /\ IsAs4Path(as4path)
    /\ CountAsns(aspath[1].path) < CountAsns(as4path[1].path)
    /\ Return(Some(aspath[1].path))
    /\ UNCHANGED <<aspath, as4path, overflow_checks, as4iter, as4seg, new_segs, seg_idx>>
    /\ UNCHANGED otherVars

MergeAs4PathEmpty_ReturnsEmpty ==
    /\ pc = "start"
    /\ IsAsPath(aspath) /\ IsAs4Path(as4path)
    /\ ~(CountAsns(aspath[1].path) < CountAsns(as4path[1].path))
    /\ IterNext(as4path[1].path.segments, 0) = None
    /\ as4seg' = None
    /\ new_segs' = <<>>
    /\ Return(Some(AsPath(new_segs')))
    /\ UNCHANGED <<aspath, as4path, overflow_checks, as4iter, seg_idx>>
    /\ UNCHANGED otherVars

\* both present, the count check passed, as4iter.next() is None:
\* new_segs.extend(aspath.segments.clone()); return Some(AsPath{segments: new_segs})
MergeAs4PathEmpty ==
    /\ pc = "start"
    /\ IsAsPath(aspath) /\ IsAs4Path(as4path)
    /\ ~(CountAsns(aspath[1].path) < CountAsns(as4path[1].path))
    /\ IterNext(as4path[1].path.segments, 0) = None
    /\ as4seg' = None
    /\ new_segs' = <<>> \o aspath[1].path.segments
    /\ Return(Some(AsPath(new_segs')))
    /\ UNCHANGED <<aspath, as4path, overflow_checks, as4iter, seg_idx>>
    /\ UNCHANGED otherVars

MergeBeginWalk_KeepsNewSegs ==
    /\ pc = "start"
    /\ IsAsPath(aspath) /\ IsAs4Path(as4path)
    /\ ~(CountAsns(aspath[1].path) < CountAsns(as4path[1].path))
    /\ IterNext(as4path[1].path.segments, 0) # None
    /\ as4seg' = IterNext(as4path[1].path.segments, 0)
    /\ as4iter' = 1
    /\ new_segs' = new_segs
    /\ seg_idx' = 1
    /\ pc' = "walk"
    /\ UNCHANGED <<aspath, as4path, overflow_checks, result>>
    /\ UNCHANGED otherVars

\* both present, the count check passed, as4iter.next() is a segment: enter the loop
MergeBeginWalk ==
    /\ pc = "start"
    /\ IsAsPath(aspath) /\ IsAs4Path(as4path)
    /\ ~(CountAsns(aspath[1].path) < CountAsns(as4path[1].path))
    /\ IterNext(as4path[1].path.segments, 0) # None
    /\ as4seg' = IterNext(as4path[1].path.segments, 0)
    /\ as4iter' = 1
    /\ new_segs' = <<>>
    /\ seg_idx' = 1
    /\ pc' = "walk"
    /\ UNCHANGED <<aspath, as4path, overflow_checks, result>>
    /\ UNCHANGED otherVars

MergeMismatch_TakesTheOther ==
    /\ pc = "start"
    /\ ~(aspath = None /\ as4path = None)
    /\ ~(IsAsPath(aspath) /\ as4path = None)
    /\ ~(aspath = None /\ IsAs4Path(as4path))
    /\ ~(IsAsPath(aspath) /\ IsAs4Path(as4path))
    /\ Return(IF IsAsPath(aspath) THEN Some(aspath[1].path)
              ELSE IF IsAs4Path(as4path) THEN Some(as4path[1].path)
              ELSE None)
    /\ UNCHANGED <<aspath, as4path, overflow_checks, as4iter, as4seg, new_segs, seg_idx>>
    /\ UNCHANGED otherVars

\* the last arm: warn!("unable to merge aspath and as4path"); None
MergeMismatch ==
    /\ pc = "start"
    /\ ~(aspath = None /\ as4path = None)
    /\ ~(IsAsPath(aspath) /\ as4path = None)
    /\ ~(aspath = None /\ IsAs4Path(as4path))
    /\ ~(IsAsPath(aspath) /\ IsAs4Path(as4path))
    /\ Return(None)
    /\ UNCHANGED <<aspath, as4path, overflow_checks, as4iter, as4seg, new_segs, seg_idx>>
    /\ UNCHANGED otherVars

InWalk == pc = "walk" /\ seg_idx <= Len(aspath[1].path.segments)

\* an iteration with AS4_PATH exhausted: as4seg.unwrap() on None panics
WalkUnwrapNone ==
    /\ InWalk
    /\ as4seg = None
    /\ Panic
    /\ UNCHANGED <<aspath, as4path, overflow_checks, as4iter, as4seg, new_segs, seg_idx>>
    /\ UNCHANGED otherVars

\* an iteration on two AS_SEQUENCE segments whose subtraction overflows, in a
\* build with overflow checks: "attempt to subtract with overflow"
WalkSubtractOverflow ==
    /\ InWalk
    /\ as4seg # None
    /\ BothSequences(aspath[1].path.segments[seg_idx], as4seg[1])
    /\ DiffLen(aspath[1].path.segments[seg_idx].asns, as4seg[1].asns) < 0
    /\ overflow_checks
    /\ Panic
    /\ UNCHANGED <<aspath, as4path, overflow_checks, as4iter, as4seg, new_segs, seg_idx>>
    /\ UNCHANGED otherVars

\* every other iteration: push the merged or the AS4_PATH segment, advance as4iter
WalkPush ==
    /\ InWalk
    /\ as4seg # None
    /\ ~(/\ BothSequences(aspath[1].path.segments[seg_idx], as4seg[1])
         /\ DiffLen(aspath[1].path.segments[seg_idx].asns, as4seg[1].asns) < 0
         /\ overflow_checks)
    /\ new_segs' = Append(new_segs, WalkSegment(aspath[1].path.segments[seg_idx], as4seg[1]))
    /\ as4seg' = IterNext(as4path[1].path.segments, as4iter)
    /\ as4iter' = IF as4iter < Len(as4path[1].path.segments) THEN as4iter + 1 ELSE as4iter
    /\ seg_idx' = seg_idx + 1
    /\ UNCHANGED <<aspath, as4path, overflow_checks, pc, result>>
    /\ UNCHANGED otherVars

\* the loop is over: return Some(AsPath{ segments: new_segs })
WalkReturn ==
    /\ pc = "walk"
    /\ seg_idx > Len(aspath[1].path.segments)
    /\ Return(Some(AsPath(new_segs)))
    /\ UNCHANGED <<aspath, as4path, overflow_checks, as4iter, as4seg, new_segs, seg_idx>>
    /\ UNCHANGED otherVars

Next ==
    \/ MergeNone
    \/ MergeOnlyAsPath
    \/ MergeOnlyAs4Path
    \/ MergeIgnoreAs4Path
    \/ MergeAs4PathEmpty
    \/ MergeBeginWalk
    \/ MergeMismatch
    \/ WalkUnwrapNone
    \/ WalkSubtractOverflow
    \/ WalkPush
    \/ WalkReturn

Spec == Init /\ [][Next]_vars

(***************************************************************************)
(* The caller calls merge_aspath_as4path once more with the arguments of a *)
(* call that returned.  The locals of the first call are dead: the second  *)
(* call initialises its own where the code does.                           *)
(***************************************************************************)
CallAgain ==
    /\ pc = "done"
    /\ ~again
    /\ again' = TRUE
    /\ first_result' = Some(result)
    /\ pc' = "start"
    /\ result' = None
    /\ UNCHANGED <<aspath, as4path, overflow_checks, as4iter, as4seg, new_segs, seg_idx>>
    /\ UNCHANGED <<pathVars, attrsVars, extVars, elemVars>>

NextTwice ==
    \/ Next
    \/ CallAgain

SpecTwice == Init /\ [][NextTwice]_vars

(***************************************************************************)
(* The caller hands the path a call returned for two present attributes    *)
(* back to merge_aspath_as4path as the AS_PATH, with the same AS4_PATH.    *)
(***************************************************************************)
CallWithMerged ==
    /\ pc = "done"
    /\ ~again
    /\ IsAsPath(aspath) /\ IsAs4Path(as4path)
    /\ result # None
    /\ again' = TRUE
    /\ first_result' = Some(result)
    /\ aspath' = Some(AttrAsPath(result[1]))
    /\ pc' = "start"
    /\ result' = None
    /\ UNCHANGED <<as4path, overflow_checks, as4iter, as4seg, new_segs, seg_idx>>
    /\ UNCHANGED <<pathVars, attrsVars, extVars, elemVars>>

NextRemerge ==
    \/ Next
    \/ CallWithMerged

SpecRemerge == Init /\ [][NextRemerge]_vars

(***************************************************************************)
(* Names for the states the claims speak of.                               *)
(***************************************************************************)
\* both attributes are present, each of the variant of its slot
BothPresent == IsAsPath(aspath) /\ IsAs4Path(as4path)

ArgSegs == aspath[1].path.segments

Arg4Segs == as4path[1].path.segments

\* the count check count_asns(AS_PATH) >= count_asns(AS4_PATH) passed
CountPassed ==
    /\ BothPresent
    /\ CountAsns(aspath[1].path) >= CountAsns(as4path[1].path)

Finished == pc \in {"done", "panic"}

MinOf(a, b) == IF a <= b THEN a ELSE b

\* position i of the walk pairs two AS_SEQUENCE segments
SequencePairAt(i) ==
    /\ i <= Len(ArgSegs)
    /\ i <= Len(Arg4Segs)
    /\ BothSequences(ArgSegs[i], Arg4Segs[i])

(***************************************************************************)
(* C1: merge_aspath_as4path returns for every pair of inputs: no call      *)
(* aborts.                                                                 *)
(* The code aborts: as4seg.unwrap() panics when AS4_PATH has at least one  *)
(* segment and fewer than AS_PATH, and the subtraction panics in a build   *)
(* with overflow checks.                                                   *)
(***************************************************************************)
C1_NeverAborts == pc # "panic"

(***************************************************************************)
(* C2: with both attributes present, the count check passed and AS4_PATH   *)
(* holding at least one segment but fewer than AS_PATH, the call returns a *)
(* path whose segments past the last AS4_PATH position are the remaining   *)
(* AS_PATH segments, verbatim and in order.                                *)
(* The code never returns in this case: the iteration after the last      *)
(* AS4_PATH segment unwraps None.  The claim is stated here for the inputs *)
(* whose paired AS_SEQUENCE segments subtract without overflow, so that    *)
(* the abort found is the one of this case and not that of C3.             *)
(***************************************************************************)
C2_RemainderAppended ==
    (/\ CountPassed
     /\ Len(Arg4Segs) >= 1
     /\ Len(Arg4Segs) < Len(ArgSegs)
     /\ \A i \in 1..Len(Arg4Segs) :
           SequencePairAt(i) => DiffLen(ArgSegs[i].asns, Arg4Segs[i].asns) >= 0
     /\ Finished)
    => /\ pc = "done"
       /\ result # None
       /\ Len(result[1].segments) = Len(ArgSegs)
       /\ \A i \in (Len(Arg4Segs) + 1)..Len(ArgSegs) : result[1].segments[i] = ArgSegs[i]

(***************************************************************************)
(* C3: once the count check has passed, at every position of the walk that *)
(* pairs two AS_SEQUENCE segments, len(AS_PATH segment) - len(AS4_PATH     *)
(* segment) >= 0.                                                          *)
(* The count check compares whole paths, not paired segments.              *)
(***************************************************************************)
C3_DiffLenNonNegative ==
    (/\ InWalk
     /\ as4seg # None
     /\ BothSequences(ArgSegs[seg_idx], as4seg[1]))
    => DiffLen(ArgSegs[seg_idx].asns, as4seg[1].asns) >= 0

(***************************************************************************)
(* C4: whenever the count check passed, whatever the segment kinds, the    *)
(* returned path counts as many ASNs as AS_PATH.                           *)
(***************************************************************************)
C4_CountPreserved ==
    (CountPassed /\ pc = "done")
    => CountAsns(result[1]) = CountAsns(aspath[1].path)

(***************************************************************************)
(* C5: whenever the count check passed and every pair of corresponding     *)
(* segments is AS_SEQUENCE with AS_SEQUENCE, the returned path counts as   *)
(* many ASNs as AS_PATH.                                                   *)
(***************************************************************************)
C5_SequenceCountPreserved ==
    (/\ CountPassed
     /\ \A i \in 1..MinOf(Len(ArgSegs), Len(Arg4Segs)) : SequencePairAt(i)
     /\ pc = "done")
    => CountAsns(result[1]) = CountAsns(aspath[1].path)

(***************************************************************************)
(* C6: with both attributes present and count_asns(AS_PATH) <              *)
(* count_asns(AS4_PATH), the call returns AS_PATH itself, whatever         *)
(* AS4_PATH holds.                                                         *)
(***************************************************************************)
C6_As4PathIgnored ==
    (/\ BothPresent
     /\ CountAsns(aspath[1].path) < CountAsns(as4path[1].path))
    => /\ pc \in {"start", "done"}
       /\ pc = "done" => result = Some(aspath[1].path)

C6_Witness ==
    /\ BothPresent
    /\ CountAsns(aspath[1].path) < CountAsns(as4path[1].path)
    /\ pc = "done"
    /\ Len(ArgSegs) = 2
    /\ Len(Arg4Segs) = 1

(***************************************************************************)
(* C7: one AS_SEQUENCE segment s in AS_PATH and one AS_SEQUENCE segment s4 *)
(* in AS4_PATH with len(s) >= len(s4) merge into one AS_SEQUENCE segment:  *)
(* the first len(s) - len(s4) ASNs of s, then the ASNs of s4;              *)
(* [1,2,3,5] with [2,3,7] gives [1,2,3,7].                                 *)
(***************************************************************************)
C7_SingleSequences ==
    /\ BothPresent
    /\ Len(ArgSegs) = 1
    /\ Len(Arg4Segs) = 1
    /\ BothSequences(ArgSegs[1], Arg4Segs[1])
    /\ Len(ArgSegs[1].asns) >= Len(Arg4Segs[1].asns)

C7_SingleSequenceMerge ==
    /\ C7_SingleSequences
       => /\ pc # "panic"
          /\ pc = "done" =>
                /\ result # None
                /\ Len(result[1].segments) = 1
                /\ result[1].segments[1].kind = "AsSequence"
                /\ result[1].segments[1].asns =
                      SubSeq(ArgSegs[1].asns, 1, Len(ArgSegs[1].asns) - Len(Arg4Segs[1].asns))
                      \o Arg4Segs[1].asns
    /\ (aspath = TestAsPath /\ as4path = TestAs4Path /\ pc = "done")
       => result = Some(AsPath(<<AsPathSegment("AsSequence", <<1, 2, 3, 7>>)>>))

C7_Witness ==
    /\ C7_SingleSequences
    /\ pc = "done"
    /\ Len(ArgSegs[1].asns) = 2
    /\ Len(Arg4Segs[1].asns) = 1

(***************************************************************************)
(* C8: whenever the call reaches the segment walk, AS4_PATH has as many    *)
(* segments as AS_PATH or fewer, so no AS4_PATH segment is left out of the *)
(* result.                                                                 *)
(***************************************************************************)
C8_As4PathNotLonger ==
    /\ pc = "walk" => Len(Arg4Segs) <= Len(ArgSegs)
    /\ (CountPassed /\ pc = "done") => Len(result[1].segments) >= Len(Arg4Segs)

C10_SingleAttribute ==
    /\ (IsAsPath(aspath) /\ as4path = None)
       => /\ pc \in {"start", "done"}
          /\ pc = "done" => result = Some(aspath[1].path)
    /\ (aspath = None /\ IsAs4Path(as4path))
       => /\ pc \in {"start", "done"}
          /\ pc = "done" => result = Some(as4path[1].path)
    /\ (aspath = None /\ as4path = None)
       => /\ pc \in {"start", "done"}
          /\ result = None

C10_Witness ==
    /\ aspath = None
    /\ IsAs4Path(as4path)
    /\ Len(Arg4Segs) = 2
    /\ pc = "done"

(***************************************************************************)
(* C11: whenever a present argument is of the wrong variant (the AS_PATH   *)
(* slot holds anything but Attribute::AsPath, or the AS4_PATH slot         *)
(* anything but Attribute::As4Path), the call returns absent and builds no *)
(* partial path, whatever the other slot holds.                            *)
(***************************************************************************)
WrongVariant ==
    \/ aspath # None /\ ~IsAsPath(aspath)
    \/ as4path # None /\ ~IsAs4Path(as4path)

C11_MismatchAbsent ==
    WrongVariant
    => /\ pc \in {"start", "done"}
       /\ result = None
       /\ new_segs = <<>>

C11_Witness ==
    /\ pc = "done"
    /\ aspath # None
    /\ aspath[1].attr = "As4Path"
    /\ IsAs4Path(as4path)
    /\ Len(as4path[1].path.segments) = 2

PathFirstAsns == {1, 9, 65537}

PathAsnVectors == {AsnRun(f, n) : f \in PathFirstAsns, n \in 0..MaxAsns}

PathSegments == {AsPathSegment(k, v) : k \in SegmentKinds, v \in PathAsnVectors}

\* segment vectors handed to from_segments
GivenSegments ==
    { <<AsPathSegment("AsSet", <<1, 2, 3>>), AsPathSegment("AsSequence", <<4, 5>>)>>,
      <<AsPathSegment("AsSequence", <<1, 2, 3, 5>>)>>,
      <<AsPathSegment("ConfedSet", <<1, 2, 3>>), AsPathSegment("AsSet", <<>>),
        AsPathSegment("ConfedSequence", <<4, 5>>)>> }

\* AsPath::new()
InitPath ==
    /\ MergeIdle
    /\ AttrsIdle
    /\ ExtIdle
    /\ ElemIdle
    /\ self_path = AsPath(<<>>)
    /\ counted = None
    /\ rendered = None
    /\ rendered_display = None
    /\ added = Some(<<>>)

\* AsPath::from_segments(segments)
FromSegments ==
    /\ self_path = AsPath(<<>>)
    /\ \E segments \in GivenSegments : self_path' = AsPath(segments)
    /\ counted' = None
    /\ rendered' = None
    /\ rendered_display' = None
    /\ added' = None
    /\ UNCHANGED notPathVars

AddSegment_Prepends ==
    /\ Len(self_path.segments) < MaxPathSegs
    /\ \E segment \in PathSegments :
          /\ self_path' = AsPath(<<segment>> \o self_path.segments)
          /\ added' = IF added = None THEN None ELSE Some(Append(added[1], segment))
    /\ counted' = None
    /\ rendered' = None
    /\ rendered_display' = None
    /\ UNCHANGED notPathVars

\* self.segments.push(segment)
AddSegment ==
    /\ Len(self_path.segments) < MaxPathSegs
    /\ \E segment \in PathSegments :
          /\ self_path' = AsPath(Append(self_path.segments, segment))
          /\ added' = IF added = None THEN None ELSE Some(Append(added[1], segment))
    /\ counted' = None
    /\ rendered' = None
    /\ rendered_display' = None
    /\ UNCHANGED notPathVars

\* self.segments.iter().map(AsPathSegment::count_asns).sum()
CallCountAsns ==
    /\ counted = None
    /\ counted' = Some(CountAsns(self_path))
    /\ UNCHANGED <<self_path, rendered, rendered_display, added>>
    /\ UNCHANGED notPathVars

\* self.to_string(), through impl fmt::Display for AsPath
CallToString ==
    /\ rendered = None
    /\ rendered' = Some(DisplayAsPath(self_path))
    /\ UNCHANGED <<self_path, counted, rendered_display, added>>
    /\ UNCHANGED notPathVars

\* self.to_string(), through the impl Display for AsPath of display.rs
CallToString_DisplayRs ==
    /\ rendered_display = None
    /\ rendered_display' = Some(DisplayRs_AsPath(self_path))
    /\ UNCHANGED <<self_path, counted, rendered, added>>
    /\ UNCHANGED notPathVars

NextPath ==
    \/ FromSegments
    \/ AddSegment
    \/ CallCountAsns
    \/ CallToString
    \/ CallToString_DisplayRs

SpecPath == InitPath /\ [][NextPath]_vars

\* the ASNs of the AS_SEQUENCE segments, each named by its segment and position
SequenceAsnSlots(segs) ==
    UNION {{<<i, j>> : j \in DOMAIN segs[i].asns} :
              i \in {k \in DOMAIN segs : segs[k].kind = "AsSequence"}}

AsSetSegments(segs) == {i \in DOMAIN segs : segs[i].kind = "AsSet"}

\* C13: count_asns of a path is the sum of what its segments contribute: an
\* AS_SEQUENCE its length, an AS_SET exactly 1 whatever its size (the empty
\* set too), a CONFED_SEQUENCE and a CONFED_SET 0; and
\* [AsSet([1,2,3]), AsSequence([4,5])] counts 3.
C13_CountIsSumOfContributions ==
    /\ counted # None =>
          counted[1] = Cardinality(SequenceAsnSlots(self_path.segments))
                       + Cardinality(AsSetSegments(self_path.segments))
    /\ (/\ counted # None
        /\ self_path.segments = <<AsPathSegment("AsSet", <<1, 2, 3>>),
                             AsPathSegment("AsSequence", <<4, 5>>)>>)
          => counted = Some(3)
    /\ (counted # None /\ self_path.segments = <<AsPathSegment("AsSet", <<>>)>>)
          => counted = Some(1)

\* the count of a path with an empty AS_SET, a confederation segment and
\* nothing else was taken
C13_Witness ==
    /\ counted = Some(1)
    /\ Len(self_path.segments) = 2
    /\ self_path.segments[1] = AsPathSegment("AsSet", <<>>)
    /\ self_path.segments[2].kind = "ConfedSequence"
    /\ Len(self_path.segments[2].asns) = 2

(***************************************************************************)
(* The attribute collection: AttributeMap, a HashMap keyed by AttrType     *)
(* that hashes its keys with AttributeHasher.                              *)
(***************************************************************************)
\* the discriminants of enum AttrType
AttrTypeCode_As4PathShifted ==
    [ORIGIN |-> 1, AS_PATH |-> 2, NEXT_HOP |-> 3, MULTI_EXIT_DISCRIMINATOR |-> 4,
     LOCAL_PREFERENCE |-> 5, ATOMIC_AGGREGATE |-> 6, AGGREGATOR |-> 7,
     COMMUNITIES |-> 8, ORIGINATOR_ID |-> 9, CLUSTER_LIST |-> 10,
     CLUSTER_ID |-> 13, MP_REACHABLE_NLRI |-> 14, MP_UNREACHABLE_NLRI |-> 15,
     EXTENDED_COMMUNITIES |-> 16, AS4_PATH |-> 18, AS4_AGGREGATOR |-> 18,
     LARGE_COMMUNITIES |-> 32, ATTRIBUTES_END |-> 33, UNASSINGED |-> 39]

AttrTypeCode ==
    [ORIGIN |-> 1, AS_PATH |-> 2, NEXT_HOP |-> 3, MULTI_EXIT_DISCRIMINATOR |-> 4,
     LOCAL_PREFERENCE |-> 5, ATOMIC_AGGREGATE |-> 6, AGGREGATOR |-> 7,
     COMMUNITIES |-> 8, ORIGINATOR_ID |-> 9, CLUSTER_LIST |-> 10,
     CLUSTER_ID |-> 13, MP_REACHABLE_NLRI |-> 14, MP_UNREACHABLE_NLRI |-> 15,
     EXTENDED_COMMUNITIES |-> 16, AS4_PATH |-> 17, AS4_AGGREGATOR |-> 18,
     LARGE_COMMUNITIES |-> 32, ATTRIBUTES_END |-> 33, UNASSINGED |-> 39]

AttrType == DOMAIN AttrTypeCode

\* a | b on unsigned integers
RECURSIVE BitOr(_, _)
BitOr(a, b) ==
    IF a = 0 THEN b
    ELSE IF b = 0 THEN a
    ELSE (IF a % 2 = 1 \/ b % 2 = 1 THEN 1 ELSE 0) + 2 * BitOr(a \div 2, b \div 2)

\* the eight bytes of a discriminant in the byte order of the target, which
\* derive(Hash) hands to Hasher::write
NeBytes(n, be) ==
    [i \in 1..8 |-> IF be THEN (IF i = 8 THEN n % 256 ELSE 0)
                          ELSE (IF i = 1 THEN n % 256 ELSE 0)]

\* AttributeHasher::write: self.value |= bytes[0] as u64
HasherWrite(value, bytes) == BitOr(value, bytes[1])

\* AttributeHasher::finish
HasherFinish(value) == value

\* the hash of a key: a default AttributeHasher (value 0), one write, finish
HashOf(k, be) == HasherFinish(HasherWrite(0, NeBytes(AttrTypeCode[k], be)))

\* the entries a lookup of k finds: those stored under the hash of k whose
\* key equals k
MapFind_ByHashOnly(m, k, h) == {i \in DOMAIN m : m[i].hash = h}

MapFind(m, k, h) == {i \in DOMAIN m : m[i].hash = h /\ m[i].key = k}

\* HashMap::get
MapGet(m, k, h) ==
    IF MapFind(m, k, h) = {} THEN None
    ELSE Some(m[CHOOSE i \in MapFind(m, k, h) : TRUE].value)

\* HashMap::insert: the value of an entry with an equal key is replaced,
\* otherwise an entry is added
MapInsert_Evicts(m, k, v, h) ==
    Append(SelectSeq(m, LAMBDA e : e.hash # h), [hash |-> h, key |-> k, value |-> v])

MapInsert(m, k, v, h) ==
    IF MapFind(m, k, h) = {}
    THEN Append(m, [hash |-> h, key |-> k, value |-> v])
    ELSE [m EXCEPT ![CHOOSE i \in MapFind(m, k, h) : TRUE].value = v]

\* the keys and the values inserted
InsertedTypes == {"ORIGIN", "AS_PATH", "AS4_PATH", "LARGE_COMMUNITIES"}

InsertedAttributes == {AttrOrigin, AttrAsPath(AsPath(<<>>))}

\* an empty collection on either kind of target
InitAttrs ==
    /\ MergeIdle
    /\ PathIdle
    /\ ExtIdle
    /\ ElemIdle
    /\ big_endian \in BOOLEAN
    /\ map = <<>>
    /\ inserts = <<>>

\* map.insert(k, v)
Insert ==
    /\ Len(inserts) < MaxInserts
    /\ \E k \in InsertedTypes, v \in InsertedAttributes :
          /\ map' = MapInsert(map, k, v, HashOf(k, big_endian))
          /\ inserts' = Append(inserts, [key |-> k, value |-> v])
    /\ UNCHANGED big_endian
    /\ UNCHANGED notAttrsVars

NextAttrs == Insert

SpecAttrs == InitAttrs /\ [][NextAttrs]_vars

\* map.get(k)
Get(k) == MapGet(map, k, HashOf(k, big_endian))

\* the inserts made under key k, by position
InsertsOf(k) == {i \in DOMAIN inserts : inserts[i].key = k}

LastOf(S) == CHOOSE i \in S : \A j \in S : j <= i

\* C14: after any sequence of inserts every AttrType key holds at most one
\* value; a lookup returns the value of the most recent insert under the key,
\* and absent exactly when nothing was inserted under it.
C14_LastWriteWins ==
    \A k \in AttrType :
        /\ Cardinality({i \in DOMAIN map : map[i].key = k}) <= 1
        /\ Get(k) = IF InsertsOf(k) = {} THEN None
                    ELSE Some(inserts[LastOf(InsertsOf(k))].value)

\* on a target where all keys hash alike, a key was inserted, then another
\* key, then the first key again with another value
C14_Witness ==
    /\ big_endian
    /\ Len(inserts) = 3
    /\ inserts[1].key = "AS4_PATH"
    /\ inserts[2].key = "AS_PATH"
    /\ inserts[3].key = "AS4_PATH"
    /\ inserts[1].value # inserts[3].value
    /\ HashOf("AS4_PATH", big_endian) = HashOf("AS_PATH", big_endian)
    /\ Get("AS4_PATH") = Some(inserts[3].value)
    /\ Get("ORIGIN") = None

\* the collection that results from making the inserts of seq, in their
\* order, into an empty collection
RECURSIVE Collect(_, _)
Collect(seq, be) ==
    IF seq = <<>> THEN <<>>
    ELSE LET ins == seq[Len(seq)]
         IN MapInsert(Collect(SubSeq(seq, 1, Len(seq) - 1), be),
                      ins.key, ins.value, HashOf(ins.key, be))

\* the orders in which n inserts can arrive
Orders(n) == {f \in [1..n -> 1..n] : \A i, j \in 1..n : i # j => f[i] # f[j]}

DistinctKeys ==
    \A i, j \in DOMAIN inserts : i # j => inserts[i].key # inserts[j].key

\* C15: the content of the collection does not depend on arrival order: the
\* same (AttrType, Attribute) pairs with pairwise distinct keys, inserted in
\* any other order, give a collection in which every key looks up to the same
\* value.
C15_OrderIndependent ==
    DistinctKeys =>
        \A f \in Orders(Len(inserts)) :
            LET other == Collect([i \in DOMAIN inserts |-> inserts[f[i]]], big_endian)
            IN \A k \in AttrType :
                   MapGet(other, k, HashOf(k, big_endian)) = Get(k)

\* three pairs with distinct keys and not all the same value were inserted on
\* a target where all keys hash alike
C15_Witness ==
    /\ big_endian
    /\ Len(inserts) = 3
    /\ DistinctKeys
    /\ inserts[1].value # inserts[2].value
    /\ Len(map) = 3
    /\ \A i \in DOMAIN map : map[i].hash = 0

\* the path attribute type codes assigned by IANA
IanaTypeCode ==
    [ORIGIN |-> 1, AS_PATH |-> 2, NEXT_HOP |-> 3, MULTI_EXIT_DISCRIMINATOR |-> 4,
     LOCAL_PREFERENCE |-> 5, ATOMIC_AGGREGATE |-> 6, AGGREGATOR |-> 7,
     COMMUNITIES |-> 8, ORIGINATOR_ID |-> 9, CLUSTER_LIST |-> 10,
     MP_REACHABLE_NLRI |-> 14, MP_UNREACHABLE_NLRI |-> 15,
     EXTENDED_COMMUNITIES |-> 16, AS4_PATH |-> 17, AS4_AGGREGATOR |-> 18,
     LARGE_COMMUNITIES |-> 32]

\* C20: the discriminants of AttrType are pairwise distinct and equal the IANA
\* path attribute type codes; so a key of the collection is stored, on a
\* little-endian target, under its IANA code.
C20_DiscriminantsAreIanaCodes ==
    /\ DOMAIN IanaTypeCode \subseteq AttrType
    /\ \A t \in DOMAIN IanaTypeCode : AttrTypeCode[t] = IanaTypeCode[t]
    /\ \A t, u \in AttrType : t # u => AttrTypeCode[t] # AttrTypeCode[u]
    /\ ~big_endian =>
          \A i \in DOMAIN map : map[i].hash = IanaTypeCode[map[i].key]

\* AS4_PATH and LARGE_COMMUNITIES are keys of a collection on a little-endian
\* target
C20_Witness ==
    /\ ~big_endian
    /\ Len(map) = 2
    /\ map[1].key = "AS4_PATH" /\ map[1].hash = 17
    /\ map[2].key = "LARGE_COMMUNITIES" /\ map[2].hash = 32

(***************************************************************************)
(* Extended communities (src/src/bgp/community.rs): the values of enum     *)
(* ExtendedCommunity and the octets their fields are laid out in.  An      *)
(* integer field is laid out most significant octet first in the width the *)
(* source states for it, and in as many octets as its value needs when     *)
(* that is more.                                                           *)
(***************************************************************************)
\* values of a u8
Octet == {0, 255}

\* values of an Asn (u32): the ends of the two-octet range, the first value
\* beyond it and a value of four octets
AsnValues == {0, 65535, 65536, 2147483647}

\* values of [u8; n]
OctetArrays(n) == {[i \in 1..n |-> b] : b \in Octet} \cup {[i \in 1..n |-> i]}

\* values of an Ipv4Addr, as its four octets
Ipv4Addrs == {<<0, 0, 0, 0>>, <<192, 0, 2, 1>>, <<255, 255, 255, 255>>}

\* the sub-types used: route target and route origin
SubTypes == {2, 3}

TwoOctetAsSpecific(t, st, ga, la) ==
    [ec_type |-> t, ec_subtype |-> st, global_administrator |-> ga,
     local_administrator |-> la]

TwoOctetAsSpecifics ==
    {TwoOctetAsSpecific(t, st, ga, la) :
        t \in {0, 64}, st \in SubTypes, ga \in AsnValues, la \in OctetArrays(4)}

FourOctetAsSpecific(t, st, ga, la) ==
    [ec_type |-> t, ec_subtype |-> st, global_administrator |-> ga,
     local_administrator |-> la]

FourOctetAsSpecifics ==
    {FourOctetAsSpecific(t, st, ga, la) :
        t \in {2, 66}, st \in SubTypes, ga \in AsnValues, la \in OctetArrays(2)}

Ipv4AddressSpecific(t, st, ga, la) ==
    [ec_type |-> t, ec_subtype |-> st, global_administrator |-> ga,
     local_administrator |-> la]

Ipv4AddressSpecifics ==
    {Ipv4AddressSpecific(t, st, ga, la) :
        t \in {1, 65}, st \in SubTypes, ga \in Ipv4Addrs, la \in OctetArrays(2)}

Opaque(t, st, v) == [ec_type |-> t, ec_subtype |-> st, value |-> v]

Opaques ==
    {Opaque(t, st, v) :
        t \in {3, 67}, st \in SubTypes, v \in OctetArrays(6)}

\* the variant of enum ExtendedCommunity and what it wraps
ExtendedCommunity(variant, v) == [variant |-> variant, v |-> v]

\* the octets a value needs
RECURSIVE OctetsNeeded(_)
OctetsNeeded(n) == IF n < 256 THEN 1 ELSE 1 + OctetsNeeded(n \div 256)

RECURSIVE Pow256(_)
Pow256(n) == IF n = 0 THEN 1 ELSE 256 * Pow256(n - 1)

\* n in w octets, most significant first
BeOctets(n, w) == [i \in 1..w |-> (n \div Pow256(w - i)) % 256]

\* an integer field of the stated width
IntField(n, width) ==
    BeOctets(n, IF OctetsNeeded(n) > width THEN OctetsNeeded(n) ELSE width)

\* the fields of an extended community, laid out in order
LayOut(e) ==
    CASE e.variant \in {"TransitiveTwoOctetAsSpecific", "NonTransitiveTwoOctetAsSpecific"} ->
            <<e.v.ec_type, e.v.ec_subtype>> \o IntField(e.v.global_administrator, 2)
            \o e.v.local_administrator
      [] e.variant \in {"TransitiveFourOctetAsSpecific", "NonTransitiveFourOctetAsSpecific"} ->
            <<e.v.ec_type, e.v.ec_subtype>> \o IntField(e.v.global_administrator, 4)
            \o e.v.local_administrator
      [] e.variant \in {"TransitiveIpv4AddressSpecific", "NonTransitiveIpv4AddressSpecific"} ->
            <<e.v.ec_type, e.v.ec_subtype>> \o e.v.global_administrator
            \o e.v.local_administrator
      [] e.variant \in {"TransitiveOpaque", "NonTransitiveOpaque"} ->
            <<e.v.ec_type, e.v.ec_subtype>> \o e.v.value
      [] e.variant = "Raw" -> e.v

\* the variant a type octet selects: bit 0x40 set is non-transitive
Transitivity(v) == IF v.ec_type >= 64 THEN "NonTransitive" ELSE "Transitive"

InitExt ==
    /\ MergeIdle
    /\ PathIdle
    /\ AttrsIdle
    /\ ElemIdle
    /\ ec = None
    /\ octets = None
    /\ shown = None

NewTwoOctetAsSpecific ==
    /\ ec = None
    /\ \E v \in TwoOctetAsSpecifics :
          ec' = Some(ExtendedCommunity(Transitivity(v) \o "TwoOctetAsSpecific", v))
    /\ UNCHANGED <<octets, shown>>
    /\ UNCHANGED notExtVars

NewIpv4AddressSpecific ==
    /\ ec = None
    /\ \E v \in Ipv4AddressSpecifics :
          ec' = Some(ExtendedCommunity(Transitivity(v) \o "Ipv4AddressSpecific", v))
    /\ UNCHANGED <<octets, shown>>
    /\ UNCHANGED notExtVars

NewFourOctetAsSpecific ==
    /\ ec = None
    /\ \E v \in FourOctetAsSpecifics :
          ec' = Some(ExtendedCommunity(Transitivity(v) \o "FourOctetAsSpecific", v))
    /\ UNCHANGED <<octets, shown>>
    /\ UNCHANGED notExtVars

NewOpaque ==
    /\ ec = None
    /\ \E v \in Opaques :
          ec' = Some(ExtendedCommunity(Transitivity(v) \o "Opaque", v))
    /\ UNCHANGED <<octets, shown>>
    /\ UNCHANGED notExtVars

NewRaw ==
    /\ ec = None
    /\ \E v \in OctetArrays(8) : ec' = Some(ExtendedCommunity("Raw", v))
    /\ UNCHANGED <<octets, shown>>
    /\ UNCHANGED notExtVars

\* the fields are laid out
LayOutFields ==
    /\ ec # None
    /\ octets = None
    /\ octets' = Some(LayOut(ec[1]))
    /\ UNCHANGED <<ec, shown>>
    /\ UNCHANGED notExtVars

(***************************************************************************)
(* The text of a path, put together from the texts of its parts.           *)
(***************************************************************************)
\* the texts of parts, in order, with sep between every two neighbours
RECURSIVE Joined(_, _)
Joined(parts, sep) ==
    IF parts = <<>> THEN <<>>
    ELSE IF Len(parts) = 1 THEN parts[1]
    ELSE parts[1] \o sep \o Joined(Tail(parts), sep)

AsnTexts(asns) == [i \in DOMAIN asns |-> ToDecimal(asns[i])]

SegmentText(seg) ==
    IF seg.kind \in {"AsSequence", "ConfedSequence"}
    THEN Joined(AsnTexts(seg.asns), <<" ">>)
    ELSE <<"{", " ">> \o Joined(AsnTexts(seg.asns), <<",", " ">>) \o <<" ", "}">>

\* C19: a path renders as its segments in order joined by exactly one space,
\* with no leading or trailing separator, an AS_SEQUENCE or CONFED_SEQUENCE
\* as its ASNs in order separated by single spaces, an AS_SET or CONFED_SET
\* as its ASNs wrapped in braces in the form { a, b }; the empty path renders
\* as the empty string.
C19_RenderedAsJoinedSegments ==
    rendered # None =>
        LET segs == self_path.segments
            texts == [i \in DOMAIN segs |-> SegmentText(segs[i])]
        IN /\ rendered[1] = Joined(texts, <<" ">>)
           /\ segs = <<>> => rendered[1] = <<>>
           /\ (segs # <<>> /\ texts[1] # <<>>) => rendered[1][1] # " "
           /\ (segs # <<>> /\ texts[Len(segs)] # <<>>) =>
                 rendered[1][Len(rendered[1])] # " "
           /\ segs = <<AsPathSegment("AsSequence", <<9, 10>>),
                       AsPathSegment("AsSet", <<65537, 65538>>)>> =>
                 rendered[1] = <<"9", " ", "1", "0", " ", "{", " ",
                                 "6", "5", "5", "3", "7", ",", " ",
                                 "6", "5", "5", "3", "8", " ", "}">>

\* a path of a sequence and a set, two ASNs each, was rendered
C19_Witness ==
    /\ rendered # None
    /\ Len(self_path.segments) = 2
    /\ self_path.segments[1] = AsPathSegment("AsSequence", <<9, 10>>)
    /\ self_path.segments[2] = AsPathSegment("AsSet", <<65537, 65538>>)
    /\ Len(rendered[1]) = 21

(***************************************************************************)
(* Text of the values a BGP element holds: what fmt::Display writes for    *)
(* each type.                                                              *)
(***************************************************************************)
HexDigitsLower ==
    <<"0", "1", "2", "3", "4", "5", "6", "7", "8", "9", "a", "b", "c", "d", "e", "f">>

HexDigitsUpper ==
    <<"0", "1", "2", "3", "4", "5", "6", "7", "8", "9", "A", "B", "C", "D", "E", "F">>

\* {:x} of an unsigned integer
RECURSIVE ToHexLower(_)
ToHexLower(n) ==
    IF n < 16 THEN <<HexDigitsLower[n + 1]>>
    ELSE ToHexLower(n \div 16) \o <<HexDigitsLower[(n % 16) + 1]>>

ByteToHex_Unpadded(b) ==
    IF b < 16 THEN <<HexDigitsUpper[b + 1]>>
    ELSE <<HexDigitsUpper[(b \div 16) + 1], HexDigitsUpper[(b % 16) + 1]>>

\* {:02X} of a u8
ByteToHex(b) == <<HexDigitsUpper[(b \div 16) + 1], HexDigitsUpper[(b % 16) + 1]>>

\* bytes_to_string
RECURSIVE BytesToString(_)
BytesToString(bytes) ==
    IF bytes = <<>> THEN <<>>
    ELSE ByteToHex(Head(bytes)) \o BytesToString(Tail(bytes))

\* Display of an Ipv4Addr, given as its four octets
DisplayIpv4Addr(o) ==
    ToDecimal(o[1]) \o <<".">> \o ToDecimal(o[2]) \o <<".">>
    \o ToDecimal(o[3]) \o <<".">> \o ToDecimal(o[4])

\* Display of an Ipv6Addr, given as its eight groups, none of them zero (so
\* that no run of groups is abbreviated)
DisplayIpv6Addr(g) ==
    ToHexLower(g[1]) \o <<":">> \o ToHexLower(g[2]) \o <<":">>
    \o ToHexLower(g[3]) \o <<":">> \o ToHexLower(g[4]) \o <<":">>
    \o ToHexLower(g[5]) \o <<":">> \o ToHexLower(g[6]) \o <<":">>
    \o ToHexLower(g[7]) \o <<":">> \o ToHexLower(g[8])

IpV4(o) == [family |-> "V4", octets |-> o]

IpV6(g) == [family |-> "V6", groups |-> g]

\* Display of an IpAddr
DisplayIpAddr(a) ==
    IF a.family = "V4" THEN DisplayIpv4Addr(a.octets) ELSE DisplayIpv6Addr(a.groups)

\* an f64: not a number, or a sign, a whole part and the digits after the
\* point (none for a whole number, no trailing zero)
F64(neg, whole, frac) == [nan |-> FALSE, neg |-> neg, whole |-> whole, frac |-> frac]

F64NaN == [nan |-> TRUE]

\* Display of an f64: a whole number is written without a point
DisplayF64(x) ==
    IF x.nan THEN <<"N", "a", "N">>
    ELSE (IF x.neg THEN <<"-">> ELSE <<>>) \o ToDecimal(x.whole)
         \o (IF x.frac = <<>> THEN <<>> ELSE <<".">> \o x.frac)

\* NetworkPrefix: an IpNetwork (address and prefix length) and a path id
NetworkPrefix(ip, len, path_id) ==
    [prefix |-> [ip |-> ip, prefix |-> len], path_id |-> path_id]

\* Display of a NetworkPrefix: write!(f, "{}", self.prefix)
DisplayNetworkPrefix(p) ==
    DisplayIpAddr(p.prefix.ip) \o <<"/">> \o ToDecimal(p.prefix.prefix)

\* Display of an Origin
DisplayOrigin(o) ==
    CASE o = "IGP" -> <<"I", "G", "P">>
      [] o = "EGP" -> <<"E", "G", "P">>
      [] o = "INCOMPLETE" -> <<"I", "N", "C", "O", "M", "P", "L", "E", "T", "E">>

\* Display of an AtomicAggregate
DisplayAtomicAggregate(a) ==
    CASE a = "NAG" -> <<"N", "A", "G">>
      [] a = "AG" -> <<"A", "G">>

(***************************************************************************)
(* Communities and their text (src/src/bgp/community.rs).                  *)
(***************************************************************************)
RegularCommunity(variant) == [regular |-> variant]

Custom(asn, value) == [regular |-> "Custom", asn |-> asn, value |-> value]

LargeCommunity(ga, ld) == [global_administrator |-> ga, local_data |-> ld]

Ipv6AddressSpecificExtendedCommunity(t, st, ga, la) ==
    [ec_type |-> t, ec_subtype |-> st, global_administrator |-> ga,
     local_administrator |-> la]

\* enum Community: the variant and what it wraps
Community(variant, c) == [community |-> variant, c |-> c]

DisplayRegularCommunity(c) ==
    CASE c.regular = "NoExport" -> <<"n", "o", "-", "e", "x", "p", "o", "r", "t">>
      [] c.regular = "NoAdvertise" -> <<"n", "o", "-", "a", "d", "v", "e", "r", "t", "i", "s", "e">>
      [] c.regular = "NoExportSubConfed" -> <<"n", "o", "-", "e", "x", "p", "o", "r", "t", "-", "s", "u", "b", "-", "c", "o", "n", "f", "e", "d">>
      [] c.regular = "Custom" -> ToDecimal(c.asn) \o <<":">> \o ToDecimal(c.value)

DisplayLargeCommunity(c) ==
    ToDecimal(c.global_administrator) \o <<":">> \o ToDecimal(c.local_data[1])
    \o <<":">> \o ToDecimal(c.local_data[2])

DisplayExtendedCommunity(e) ==
    CASE e.variant \in {"TransitiveTwoOctetAsSpecific", "NonTransitiveTwoOctetAsSpecific",
                        "TransitiveFourOctetAsSpecific", "NonTransitiveFourOctetAsSpecific"} ->
            ToDecimal(e.v.ec_type) \o <<":">> \o ToDecimal(e.v.ec_subtype) \o <<":">>
            \o ToDecimal(e.v.global_administrator) \o <<":">>
            \o BytesToString(e.v.local_administrator)
      [] e.variant \in {"TransitiveIpv4AddressSpecific", "NonTransitiveIpv4AddressSpecific"} ->
            ToDecimal(e.v.ec_type) \o <<":">> \o ToDecimal(e.v.ec_subtype) \o <<":">>
            \o DisplayIpv4Addr(e.v.global_administrator) \o <<":">>
            \o BytesToString(e.v.local_administrator)
      [] e.variant \in {"TransitiveOpaque", "NonTransitiveOpaque"} ->
            ToDecimal(e.v.ec_type) \o <<":">> \o ToDecimal(e.v.ec_subtype) \o <<":">>
            \o BytesToString(e.v.value)
      [] e.variant = "Raw" -> BytesToString(e.v)

DisplayIpv6AddressSpecificExtendedCommunity(c) ==
    ToDecimal(c.ec_type) \o <<":">> \o ToDecimal(c.ec_subtype) \o <<":">>
    \o DisplayIpv6Addr(c.global_administrator) \o <<":">>
    \o BytesToString(c.local_administrator)

DisplayCommunity(c) ==
    CASE c.community = "RegularCommunity" -> DisplayRegularCommunity(c.c)
      [] c.community = "ExtendedCommunity" -> DisplayExtendedCommunity(c.c)
      [] c.community = "Ipv6SpecificExtendedCommunity" ->
            DisplayIpv6AddressSpecificExtendedCommunity(c.c)
      [] c.community = "LargeCommunity" -> DisplayLargeCommunity(c.c)

(***************************************************************************)
(* BgpElem and impl Display for BgpElem (src/src/bgp/elem.rs).             *)
(***************************************************************************)
\* v.to_string() for v of the type named
ToString(v, type) ==
    CASE type = "AsPath" -> DisplayAsPath(v)
      [] type = "Origin" -> DisplayOrigin(v)
      [] type = "IpAddr" -> DisplayIpAddr(v)
      [] type = "u32" -> ToDecimal(v)
      [] type = "AtomicAggregate" -> DisplayAtomicAggregate(v)

\* macro option_to_string!, expanded for an Option of the type named:
\* v.to_string() of what is there, else String::new()
OptionToString(a, type) == IF a # None THEN ToString(a[1], type) ELSE <<>>

\* v.iter().join(" "), from position i on
RECURSIVE JoinCommunities(_, _)
JoinCommunities(v, i) ==
    IF i > Len(v) THEN <<>>
    ELSE (IF i > 1 THEN <<" ">> ELSE <<>>) \o DisplayCommunity(v[i])
         \o JoinCommunities(v, i + 1)

\* option_to_string_communities
OptionToStringCommunities(o) == IF o # None THEN JoinCommunities(o[1], 1) ELSE <<>>

\* the tag t of the element type
ElemTypeTag(elem_type) ==
    CASE elem_type = "ANNOUNCE" -> <<"A">>
      [] elem_type = "WITHDRAW" -> <<"W">>

\* the arguments of format!, in their order
FormatArguments_DeclarationOrder(e) ==
    << ElemTypeTag(e.elem_type),
       DisplayF64(e.timestamp),
       DisplayIpAddr(e.peer_ip),
       ToDecimal(e.peer_asn),
       DisplayNetworkPrefix(e.prefix),
       OptionToString(e.next_hop, "IpAddr"),
       OptionToString(e.as_path, "AsPath"),
       OptionToString(e.origin, "Origin"),
       OptionToString(e.local_pref, "u32"),
       OptionToString(e.med, "u32"),
       OptionToStringCommunities(e.communities),
       OptionToString(e.atomic, "AtomicAggregate"),
       OptionToString(e.aggr_asn, "u32"),
       OptionToString(e.aggr_ip, "IpAddr") >>

FormatArguments(e) ==
    << ElemTypeTag(e.elem_type),
       DisplayF64(e.timestamp),
       DisplayIpAddr(e.peer_ip),
       ToDecimal(e.peer_asn),
       DisplayNetworkPrefix(e.prefix),
       OptionToString(e.as_path, "AsPath"),
       OptionToString(e.origin, "Origin"),
       OptionToString(e.next_hop, "IpAddr"),
       OptionToString(e.local_pref, "u32"),
       OptionToString(e.med, "u32"),
       OptionToStringCommunities(e.communities),
       OptionToString(e.atomic, "AtomicAggregate"),
       OptionToString(e.aggr_asn, "u32"),
       OptionToString(e.aggr_ip, "IpAddr") >>

\* format!("{}|{}|{}|{}|{}|{}|{}|{}|{}|{}|{}|{}|{}|{}", ...)
Format_ThirteenPlaceholders(a) ==
    a[1] \o <<"|">> \o a[2] \o <<"|">> \o a[3] \o <<"|">> \o a[4] \o <<"|">>
    \o a[5] \o <<"|">> \o a[6] \o <<"|">> \o a[7] \o <<"|">> \o a[8] \o <<"|">>
    \o a[9] \o <<"|">> \o a[10] \o <<"|">> \o a[11] \o <<"|">> \o a[12] \o <<"|">>
    \o a[13]

Format(a) ==
    a[1] \o <<"|">> \o a[2] \o <<"|">> \o a[3] \o <<"|">> \o a[4] \o <<"|">>
    \o a[5] \o <<"|">> \o a[6] \o <<"|">> \o a[7] \o <<"|">> \o a[8] \o <<"|">>
    \o a[9] \o <<"|">> \o a[10] \o <<"|">> \o a[11] \o <<"|">> \o a[12] \o <<"|">>
    \o a[13] \o <<"|">> \o a[14]

\* impl Display for BgpElem
DisplayBgpElem(e) == Format(FormatArguments(e))

\* the fields of BgpElem of type Option<_>
OptionalFields ==
    {"next_hop", "as_path", "origin_asns", "origin", "local_pref", "med",
     "communities", "atomic", "aggr_asn", "aggr_ip"}

\* elements with every optional field present
FullElems ==
    { [timestamp |-> F64(FALSE, 0, <<>>),
       elem_type |-> "ANNOUNCE",
       peer_ip |-> IpV4(<<192, 168, 1, 1>>),
       peer_asn |-> 0,
       prefix |-> NetworkPrefix(IpV4(<<8, 8, 8, 0>>), 24, 0),
       next_hop |-> Some(IpV4(<<10, 0, 0, 1>>)),
       as_path |-> Some(AsPath(<<AsPathSegment("AsSequence", <<9, 10>>),
                                 AsPathSegment("AsSet", <<65537, 65538>>)>>)),
       origin_asns |-> Some(<<65537, 65538>>),
       origin |-> Some("IGP"),
       local_pref |-> Some(100),
       med |-> Some(0),
       communities |-> Some(<<Community("RegularCommunity", RegularCommunity("NoExport")),
                              Community("RegularCommunity", Custom(65000, 100))>>),
       atomic |-> Some("NAG"),
       aggr_asn |-> Some(65000),
       aggr_ip |-> Some(IpV4(<<10, 0, 0, 2>>))],
      [timestamp |-> F64(FALSE, 1609459200, <<"5">>),
       elem_type |-> "ANNOUNCE",
       peer_ip |-> IpV6(<<8193, 3512, 1, 2, 3, 4, 5, 6>>),
       peer_asn |-> 2147483647,
       prefix |-> NetworkPrefix(IpV6(<<8193, 3512, 1, 2, 3, 4, 5, 6>>), 128, 7),
       next_hop |-> Some(IpV6(<<65152, 1, 1, 1, 1, 1, 1, 1>>)),
       as_path |-> Some(AsPath(<<>>)),
       origin_asns |-> Some(<<>>),
       origin |-> Some("INCOMPLETE"),
       local_pref |-> Some(2147483647),
       med |-> Some(4),
       communities |-> Some(<<>>),
       atomic |-> Some("AG"),
       aggr_asn |-> Some(0),
       aggr_ip |-> Some(IpV6(<<8193, 3512, 1, 2, 3, 4, 5, 6>>))],
      [timestamp |-> F64NaN,
       elem_type |-> "ANNOUNCE",
       peer_ip |-> IpV4(<<0, 0, 0, 0>>),
       peer_asn |-> 65536,
       prefix |-> NetworkPrefix(IpV4(<<0, 0, 0, 0>>), 0, 0),
       next_hop |-> Some(IpV4(<<255, 255, 255, 255>>)),
       as_path |-> Some(AsPath(<<AsPathSegment("ConfedSequence", <<1>>),
                                 AsPathSegment("ConfedSet", <<>>),
                                 AsPathSegment("AsSequence", <<>>)>>)),
       origin_asns |-> Some(<<1>>),
       origin |-> Some("EGP"),
       local_pref |-> Some(0),
       med |-> Some(2147483647),
       communities |->
           Some(<<Community("LargeCommunity", LargeCommunity(65536, <<1, 2147483647>>)),
                  Community("ExtendedCommunity",
                      ExtendedCommunity("TransitiveTwoOctetAsSpecific",
                          TwoOctetAsSpecific(0, 2, 65535, <<0, 0, 0, 255>>))),
                  Community("ExtendedCommunity",
                      ExtendedCommunity("NonTransitiveIpv4AddressSpecific",
                          Ipv4AddressSpecific(65, 3, <<192, 0, 2, 1>>, <<1, 2>>))),
                  Community("ExtendedCommunity",
                      ExtendedCommunity("TransitiveOpaque",
                          Opaque(3, 2, <<1, 2, 3, 4, 5, 6>>))),
                  Community("ExtendedCommunity",
                      ExtendedCommunity("Raw", <<255, 255, 255, 255, 255, 255, 255, 255>>)),
                  Community("Ipv6SpecificExtendedCommunity",
                      Ipv6AddressSpecificExtendedCommunity(0, 2,
                          <<8193, 3512, 1, 2, 3, 4, 5, 6>>, <<0, 10>>)),
                  Community("RegularCommunity", RegularCommunity("NoAdvertise")),
                  Community("RegularCommunity", RegularCommunity("NoExportSubConfed"))>>),
       atomic |-> Some("NAG"),
       aggr_asn |-> Some(2147483647),
       aggr_ip |-> Some(IpV4(<<192, 0, 2, 1>>))] }

\* e with the type t and with only the optional fields of present
BgpElem(e, t, present) ==
    [f \in DOMAIN e |->
        IF f = "elem_type" THEN t
        ELSE IF f \in OptionalFields /\ f \notin present THEN None
        ELSE e[f]]

InitElem ==
    /\ MergeIdle
    /\ PathIdle
    /\ AttrsIdle
    /\ ExtIdle
    /\ elem = None
    /\ line = None

\* a BgpElem is made
NewBgpElem ==
    /\ elem = None
    /\ \E e \in FullElems, t \in {"ANNOUNCE", "WITHDRAW"}, present \in SUBSET OptionalFields :
          elem' = Some(BgpElem(e, t, present))
    /\ UNCHANGED line
    /\ UNCHANGED notElemVars

\* elem.to_string(), through impl Display for BgpElem
ElemToString ==
    /\ elem # None
    /\ line = None
    /\ line' = Some(DisplayBgpElem(elem[1]))
    /\ UNCHANGED elem
    /\ UNCHANGED notElemVars

NextElem ==
    \/ NewBgpElem
    \/ ElemToString

SpecElem == InitElem /\ [][NextElem]_vars

(***************************************************************************)
(* A line taken apart again at its separators.                             *)
(***************************************************************************)
\* the positions of sep in text
SeparatorsIn(text, sep) == {i \in DOMAIN text : text[i] = sep}

\* the position of the k-th sep of text
SeparatorAt(text, sep, k) ==
    CHOOSE i \in SeparatorsIn(text, sep) :
        Cardinality({j \in SeparatorsIn(text, sep) : j < i}) = k - 1

\* the fields of text: the pieces between the occurrences of sep
Split(text, sep) ==
    LET n == Cardinality(SeparatorsIn(text, sep))
    IN [k \in 1..(n + 1) |->
           SubSeq(text,
                  IF k = 1 THEN 1 ELSE SeparatorAt(text, sep, k - 1) + 1,
                  IF k = n + 1 THEN Len(text) ELSE SeparatorAt(text, sep, k) - 1)]

Fields(text) == Split(text, "|")

Pipes(text) == Cardinality({i \in DOMAIN text : text[i] = "|"})

\* where each optional field is rendered
FieldPosition ==
    [as_path |-> 6, origin |-> 7, next_hop |-> 8, local_pref |-> 9, med |-> 10,
     communities |-> 11, atomic |-> 12, aggr_asn |-> 13, aggr_ip |-> 14]

\* C17: the text of a BgpElem is 14 fields separated by 13 '|' characters, in
\* the order type tag ('A' or 'W'), timestamp, peer_ip, peer_asn, prefix,
\* as_path, origin, next_hop, local_pref, med, communities, atomic, aggr_asn,
\* aggr_ip; an optional field that is absent is the empty string at its own
\* position, whichever other optional fields are present.
C17_FourteenFields ==
    line # None =>
        LET e == elem[1]
            f == Fields(line[1])
        IN /\ Pipes(line[1]) = 13
           /\ Len(f) = 14
           /\ f[1] = IF e.elem_type = "ANNOUNCE" THEN <<"A">> ELSE <<"W">>
           /\ f[2] = DisplayF64(e.timestamp)
           /\ f[3] = DisplayIpAddr(e.peer_ip)
           /\ f[4] = ToDecimal(e.peer_asn)
           /\ f[5] = DisplayNetworkPrefix(e.prefix)
           /\ \A name \in DOMAIN FieldPosition :
                 e[name] = None => f[FieldPosition[name]] = <<>>
           /\ e.as_path # None => f[6] = DisplayAsPath(e.as_path[1])
           /\ e.origin # None => f[7] = DisplayOrigin(e.origin[1])
           /\ e.next_hop # None => f[8] = DisplayIpAddr(e.next_hop[1])
           /\ e.local_pref # None => f[9] = ToDecimal(e.local_pref[1])
           /\ e.med # None => f[10] = ToDecimal(e.med[1])
           /\ e.communities # None => f[11] = JoinCommunities(e.communities[1], 1)
           /\ e.atomic # None => f[12] = DisplayAtomicAggregate(e.atomic[1])
           /\ e.aggr_asn # None => f[13] = ToDecimal(e.aggr_asn[1])
           /\ e.aggr_ip # None => f[14] = DisplayIpAddr(e.aggr_ip[1])

\* an announcement with origin, med and aggr_ip present and every other
\* optional field absent was rendered
C17_Witness ==
    /\ line # None
    /\ elem[1].elem_type = "ANNOUNCE"
    /\ \A name \in OptionalFields :
          elem[1][name] # None <=> name \in {"origin", "med", "aggr_ip"}
    /\ elem[1].origin = Some("INCOMPLETE")
    /\ Fields(line[1])[7] = <<"I", "N", "C", "O", "M", "P", "L", "E", "T", "E">>
    /\ Fields(line[1])[10] = <<"4">>

\* a withdrawal with every optional field absent
BareWithdrawal ==
    /\ elem # None
    /\ elem[1].elem_type = "WITHDRAW"
    /\ \A name \in OptionalFields : elem[1][name] = None

\* W|<ts>|<peer_ip>|<peer_asn>|<prefix>
LeadingFields(e) ==
    <<"W">> \o <<"|">> \o DisplayF64(e.timestamp) \o <<"|">> \o DisplayIpAddr(e.peer_ip)
    \o <<"|">> \o ToDecimal(e.peer_asn) \o <<"|">> \o DisplayNetworkPrefix(e.prefix)

\* C18: a WITHDRAW with every optional field absent renders as
\* W|<ts>|<peer_ip>|<peer_asn>|<prefix> followed by eight '|' characters and
\* nothing else.
C18_EightPipes ==
    (BareWithdrawal /\ line # None) =>
        line[1] = LeadingFields(elem[1]) \o [i \in 1..8 |-> "|"]

\* C18, amended: the five leading fields are followed by nine '|' characters
\* and nothing else.
C18_NinePipes ==
    (BareWithdrawal /\ line # None) =>
        line[1] = LeadingFields(elem[1]) \o [i \in 1..9 |-> "|"]

\* a withdrawal with every optional field absent was rendered
C18_Witness ==
    /\ BareWithdrawal
    /\ line # None
    /\ elem[1].peer_ip = IpV4(<<192, 168, 1, 1>>)
    /\ Len(line[1]) = Len(LeadingFields(elem[1])) + 9

(***************************************************************************)
(* Extended communities, made, laid out and rendered.                      *)
(***************************************************************************)
\* ec.to_string(), through impl Display for ExtendedCommunity
ExtToString ==
    /\ ec # None
    /\ shown = None
    /\ shown' = Some(DisplayExtendedCommunity(ec[1]))
    /\ UNCHANGED <<ec, octets>>
    /\ UNCHANGED notExtVars

NextExt ==
    \/ NewTwoOctetAsSpecific
    \/ NewIpv4AddressSpecific
    \/ NewFourOctetAsSpecific
    \/ NewOpaque
    \/ NewRaw
    \/ LayOutFields
    \/ ExtToString

SpecExt == InitExt /\ [][NextExt]_vars

\* C16: every value of every ExtendedCommunity variant occupies exactly 8
\* octets when its fields are laid out; no representable value needs more or
\* fewer.
C16_EightOctets == octets # None => Len(octets[1]) = 8

\* the number a text of decimal digits writes
DigitValue(ch) == CHOOSE d \in 0..9 : DecimalDigits[d + 1] = ch

RECURSIVE DecimalValue(_)
DecimalValue(text) ==
    IF Len(text) = 1 THEN DigitValue(text[1])
    ELSE 10 * DecimalValue(SubSeq(text, 1, Len(text) - 1)) + DigitValue(text[Len(text)])

\* text is n in decimal: digits only, no leading zero, and writes n
IsDecimalOf(text, n) ==
    /\ text # <<>>
    /\ \A i \in DOMAIN text : \E d \in 0..9 : DecimalDigits[d + 1] = text[i]
    /\ Len(text) > 1 => text[1] # "0"
    /\ DecimalValue(text) = n

\* text is bytes in upper-case hexadecimal: two digits per byte, the high
\* one first, and nothing between the bytes
IsHexOf(text, bytes) ==
    /\ Len(text) = 2 * Len(bytes)
    /\ \A i \in DOMAIN bytes :
          /\ text[2 * i - 1] = HexDigitsUpper[(bytes[i] \div 16) + 1]
          /\ text[2 * i] = HexDigitsUpper[(bytes[i] % 16) + 1]
    /\ \A i \in DOMAIN text :
          text[i] \in {"0", "1", "2", "3", "4", "5", "6", "7", "8", "9",
                       "A", "B", "C", "D", "E", "F"}

\* C21: the text of an ExtendedCommunity is its fields joined by ':' in the
\* order type:subtype:admin:local; a byte-array field (local administrator,
\* opaque value, raw payload) is two upper-case hexadecimal digits per byte
\* with nothing between the bytes, an integer field (ec_type, ec_subtype, an
\* ASN global administrator) is in decimal.
C21_HexAndDecimalFields ==
    shown # None =>
        LET e == ec[1]
            f == Split(shown[1], ":")
        IN CASE e.variant \in {"TransitiveTwoOctetAsSpecific", "NonTransitiveTwoOctetAsSpecific",
                               "TransitiveFourOctetAsSpecific", "NonTransitiveFourOctetAsSpecific"} ->
                  /\ Len(f) = 4
                  /\ IsDecimalOf(f[1], e.v.ec_type)
                  /\ IsDecimalOf(f[2], e.v.ec_subtype)
                  /\ IsDecimalOf(f[3], e.v.global_administrator)
                  /\ IsHexOf(f[4], e.v.local_administrator)
             [] e.variant \in {"TransitiveIpv4AddressSpecific", "NonTransitiveIpv4AddressSpecific"} ->
                  /\ Len(f) = 4
                  /\ IsDecimalOf(f[1], e.v.ec_type)
                  /\ IsDecimalOf(f[2], e.v.ec_subtype)
                  /\ f[3] = DisplayIpv4Addr(e.v.global_administrator)
                  /\ IsHexOf(f[4], e.v.local_administrator)
             [] e.variant \in {"TransitiveOpaque", "NonTransitiveOpaque"} ->
                  /\ Len(f) = 3
                  /\ IsDecimalOf(f[1], e.v.ec_type)
                  /\ IsDecimalOf(f[2], e.v.ec_subtype)
                  /\ IsHexOf(f[3], e.v.value)
             [] e.variant = "Raw" ->
                  /\ Len(f) = 1
                  /\ IsHexOf(f[1], e.v)

\* a non-transitive two-octet AS specific community whose local
\* administrator holds bytes below 16 was rendered
C21_Witness ==
    /\ shown # None
    /\ ec[1].variant = "NonTransitiveTwoOctetAsSpecific"
    /\ ec[1].v.global_administrator = 65535
    /\ ec[1].v.local_administrator = <<1, 2, 3, 4>>
    /\ shown[1] = <<"6", "4", ":", "2", ":", "6", "5", "5", "3", "5", ":",
                    "0", "1", "0", "2", "0", "3", "0", "4">>

(***************************************************************************)
(* A path grown by add_segment alone.                                      *)
(***************************************************************************)
\* this step is a call of add_segment on a path made by new() and grown by
\* add_segment only
AddedOne ==
    /\ added # None
    /\ added' # None
    /\ added' # added

\* C22: starting from AsPath::new() (no segments, count_asns = 0), after any
\* sequence of add_segment calls the segments of the path are exactly the
\* added segments in call order: each call appends at the end, leaves every
\* earlier segment unchanged and increases count_asns by exactly the
\* contribution of the added segment.
C22_AppendOnly ==
    [][/\ added' # None => self_path'.segments = added'[1]
       /\ added' = Some(<<>>) => CountAsns(self_path') = 0
       /\ AddedOne =>
             LET n == Len(self_path.segments)
             IN /\ Len(self_path'.segments) = n + 1
                /\ \A i \in 1..n : self_path'.segments[i] = self_path.segments[i]
                /\ self_path'.segments[n + 1] = added'[1][Len(added'[1])]
                /\ CountAsns(self_path')
                      = CountAsns(self_path) + SegmentCountAsns(self_path'.segments[n + 1])]_vars

\* add_segment was called twice on a new path, with different segments, the
\* second an AS_SET
C22_Witness ==
    /\ added # None
    /\ Len(added[1]) = 2
    /\ added[1][1] = AsPathSegment("AsSequence", <<9, 10>>)
    /\ added[1][2] = AsPathSegment("AsSet", <<1, 2>>)
    /\ self_path.segments = added[1]
    /\ counted = Some(3)

(***************************************************************************)
(* The merge applied to its own result, and the merge with an empty        *)
(* AS4_PATH.                                                               *)
(***************************************************************************)
\* C23: when merge(AS_PATH, AS4_PATH) of two present attributes returns a
\* path m, merging m as the AS_PATH with the same AS4_PATH returns m again.
C23_Idempotent ==
    again =>
        /\ pc # "panic"
        /\ pc = "done" => result = first_result[1]

\* the segment walk built a path of two segments, one of them merged from
\* two sequences of different lengths, and the merge of that path with the
\* same AS4_PATH walked again and returned
C23_Witness ==
    /\ again
    /\ pc = "done"
    /\ Len(new_segs) = 2
    /\ first_result = Some(Some(AsPath(new_segs)))
    /\ result = Some(AsPath(new_segs))
    /\ Len(Arg4Segs) >= 2
    /\ \E i \in 1..2 :
          /\ new_segs[i].kind = "AsSequence"
          /\ Arg4Segs[i].kind = "AsSequence"
          /\ Len(new_segs[i].asns) > Len(Arg4Segs[i].asns)

\* C24: when both attributes are present and AS4_PATH has no segments, the
\* call returns a path equal to AS_PATH, whatever AS_PATH is (one with no
\* segments too).
C24_EmptyAs4PathReturnsAsPath ==
    (BothPresent /\ Arg4Segs = <<>>) =>
        /\ pc \in {"start", "done"}
        /\ pc = "done" => result = Some(aspath[1].path)

\* the call returned for an AS_PATH of two segments and an AS4_PATH of none
C24_Witness ==
    /\ BothPresent
    /\ Arg4Segs = <<>>
    /\ pc = "done"
    /\ Len(ArgSegs) = 2
    /\ ArgSegs[1].kind = "ConfedSet"
    /\ result = Some(AsPath(ArgSegs))

(***************************************************************************)
(* The two Display implementations for AsPath, of attributes.rs and of     *)
(* display.rs, on the same path.                                           *)
(***************************************************************************)
\* C25: whenever a path has been rendered by both implementations, the
\* Display of attributes.rs and the Display of display.rs wrote the same text.
C25_SameTextFromBothDisplays ==
    (rendered # None /\ rendered_display # None) => rendered[1] = rendered_display[1]
====
